---- MODULE Spec2Model ----
(***************************************************************************)
(* Model of zod-fragments (src/src/index.ts, src/src/extensions.ts).        *)
(*                                                                         *)
(* A fragment factory builds a zod schema; the model represents a schema   *)
(* as a record and zod's parsing of an input against a schema as the       *)
(* recursive operator Parse.  JavaScript values are records tagged by      *)
(* their type; a JavaScript string is a sequence of one-character strings  *)
(* so that trimming, case folding and pattern matching are computed.       *)
(* Message texts are TLA+ strings.                                         *)
(***************************************************************************)
EXTENDS Integers, Sequences, FiniteSets, TLC

VARIABLES factory, label, override, options, input, result

vars == <<factory, label, override, options, input, result>>

(***************************************************************************)
(* JavaScript values                                                       *)
(***************************************************************************)
Undef == [kind |-> "undefined"]
Null == [kind |-> "null"]
NaNV == [kind |-> "nan"]
StrV(s) == [kind |-> "string", val |-> s]
NumV(n) == [kind |-> "number", val |-> n]
BoolV(b) == [kind |-> "boolean", val |-> b]
\* an array of values, and an object with the given properties
ArrV(items) == [kind |-> "array", val |-> items]
ObjV(fields) == [kind |-> "object", fields |-> fields]
\* x?.[key] for a property that primitives do not have
Get(x, key) ==
  IF x.kind = "object" /\ key \in DOMAIN x.fields THEN x.fields[key] ELSE Undef

\* zod's getParsedType: the name zod reports for the type of a value
ParsedType(v) == v.kind

(***************************************************************************)
(* Characters and strings                                                  *)
(***************************************************************************)
DigitChars == {"0", "1", "2", "3", "4", "5", "6", "7", "8", "9"}
LowerSeq == <<"a", "b", "c", "d", "e", "f", "g", "h", "i", "j", "k", "l", "m",
              "n", "o", "p", "q", "r", "s", "t", "u", "v", "w", "x", "y", "z">>
UpperSeq == <<"A", "B", "C", "D", "E", "F", "G", "H", "I", "J", "K", "L", "M",
              "N", "O", "P", "Q", "R", "S", "T", "U", "V", "W", "X", "Y", "Z">>
LowerChars == {LowerSeq[i] : i \in 1..26}
UpperChars == {UpperSeq[i] : i \in 1..26}
HexChars == DigitChars \cup {"a", "b", "c", "d", "e", "f", "A", "B", "C", "D", "E", "F"}
\* the characters matched by \s (and removed by trim) that the inputs use
WhiteSpace == {" "}

DigitSeq == <<"0", "1", "2", "3", "4", "5", "6", "7", "8", "9">>
DigitVal(c) == (CHOOSE i \in 1..10 : DigitSeq[i] = c) - 1

AllIn(s, set) == \A i \in 1..Len(s) : s[i] \in set

\* the text of a character sequence, as a message string
RECURSIVE Text(_)
Text(s) == IF s = <<>> THEN "" ELSE Head(s) \o Text(Tail(s))

\* Array.prototype.join
RECURSIVE Join(_, _)
Join(strs, sep) ==
  IF strs = <<>> THEN ""
  ELSE IF Len(strs) = 1 THEN Text(strs[1])
  ELSE Text(strs[1]) \o sep \o Join(Tail(strs), sep)

\* String.prototype.trim
RECURSIVE TrimStart(_)
TrimStart(s) ==
  IF s # <<>> /\ Head(s) \in WhiteSpace THEN TrimStart(Tail(s)) ELSE s

RECURSIVE TrimEnd(_)
TrimEnd(s) ==
  IF s # <<>> /\ s[Len(s)] \in WhiteSpace THEN TrimEnd(SubSeq(s, 1, Len(s) - 1)) ELSE s

Trim(s) == TrimEnd(TrimStart(s))

\* String.prototype.toLowerCase
ToLowerChar(c) ==
  IF c \in UpperChars THEN LowerSeq[CHOOSE i \in 1..26 : UpperSeq[i] = c] ELSE c

ToLowerCase(s) == [i \in 1..Len(s) |-> ToLowerChar(s[i])]

\* String.prototype.startsWith
StartsWith(s, p) == Len(s) >= Len(p) /\ SubSeq(s, 1, Len(p)) = p

\* s.replace(/[\s-]/g, "")
RECURSIVE StripSpaceHyphen(_)
StripSpaceHyphen(s) ==
  IF s = <<>> THEN <<>>
  ELSE IF Head(s) \in WhiteSpace \cup {"-"} THEN StripSpaceHyphen(Tail(s))
  ELSE <<Head(s)>> \o StripSpaceHyphen(Tail(s))

(***************************************************************************)
(* Messages                                                                *)
(***************************************************************************)
\* an unset message (an absent property, or no argument)
NoMsg == "<undefined>"

FIELD_ERRORS ==
  [REQUIRED |-> "is required",
   STRING |-> "must be a string",
   NUMBER |-> "must be a number",
   BOOLEAN |-> "must be a boolean",
   UUID |-> "must be a valid UUID",
   ENUM |-> "must be one of:",
   DATE |-> "must be a valid date",
   URL |-> "must be a valid URL",
   SLUG_FORMAT |-> "must contain only lowercase letters, numbers and hyphens",
   MOBILE |-> "must be a valid 10-digit mobile number",
   EMAIL |-> "must be a valid email address"]

\* a || b on message strings: the empty string and undefined are falsy
Or(a, b) == IF a = NoMsg \/ a = "" THEN b ELSE a

\* a ?? b
Nullish(a, b) == IF a = NoMsg THEN b ELSE a

\* `${label} ${suffix}`
Tpl(lbl, suffix) == lbl \o " " \o suffix

\* CustomMessages | string | undefined
NoOverride == [kind |-> "undefined"]
StrOverride(s) == [kind |-> "string", val |-> s]
ObjOverride(r, i, v) == [kind |-> "object", required |-> r, invalid |-> i, validation |-> v]

EmptyMessages == [required |-> NoMsg, invalid |-> NoMsg, validation |-> NoMsg]

\* customMessages || {}
MessagesOrEmpty(customMessages) ==
  IF customMessages.kind = "object"
  THEN [required |-> customMessages.required,
        invalid |-> customMessages.invalid,
        validation |-> customMessages.validation]
  ELSE EmptyMessages

\* typeof msg === "string" ? msg : msg?.<class> || dflt
MsgOr(msg, class, dflt) ==
  IF msg.kind = "string" THEN msg.val
  ELSE Or(MessagesOrEmpty(msg)[class], dflt)

(***************************************************************************)
(* Numbers.  A number value NumV(t) is the IEEE-754 double nearest to the   *)
(* decimal t/1000 (the double that the literal with three fractional       *)
(* digits denotes); NaN is NaNV.  The arithmetic of money is computed on   *)
(* the double itself: a 53-bit significand, held as a sequence of limbs    *)
(* (least significant first), and a binary exponent.                       *)
(***************************************************************************)
LimbBase == 32768
LimbBits == 15
\* the significand width of a double
SigBits == 53
\* 2^ScaleBits / 1000 has more than SigBits bits for every t >= 1
ScaleBits == 70

RECURSIVE BigNorm(_)
BigNorm(a) ==
  IF a # <<>> /\ a[Len(a)] = 0 THEN BigNorm(SubSeq(a, 1, Len(a) - 1)) ELSE a

RECURSIVE BigFromInt(_)
BigFromInt(n) ==
  IF n = 0 THEN <<>> ELSE <<n % LimbBase>> \o BigFromInt(n \div LimbBase)

RECURSIVE BigToInt(_)
BigToInt(a) == IF a = <<>> THEN 0 ELSE a[1] + LimbBase * BigToInt(Tail(a))

RECURSIVE BigMulCarry(_, _, _)
BigMulCarry(a, k, carry) ==
  IF a = <<>> THEN BigFromInt(carry)
  ELSE LET t == a[1] * k + carry
       IN <<t % LimbBase>> \o BigMulCarry(Tail(a), k, t \div LimbBase)

\* a * k, k at most 1024
BigMulSmall(a, k) == BigNorm(BigMulCarry(a, k, 0))

BigAddSmall(a, k) == BigNorm(BigMulCarry(a, 1, k))

RECURSIVE BigDivFrom(_, _, _, _)
BigDivFrom(a, i, k, rem) ==
  IF i = 0 THEN [q |-> <<>>, r |-> rem]
  ELSE LET cur == rem * LimbBase + a[i]
           rest == BigDivFrom(a, i - 1, k, cur % k)
       IN [q |-> Append(rest.q, cur \div k), r |-> rest.r]

\* quotient and remainder of a by k, k at most 1024
BigDivSmall(a, k) ==
  LET d == BigDivFrom(a, Len(a), k, 0) IN [q |-> BigNorm(d.q), r |-> d.r]

RECURSIVE IntBitLen(_)
IntBitLen(n) == IF n = 0 THEN 0 ELSE 1 + IntBitLen(n \div 2)

BigBitLen(a) ==
  IF a = <<>> THEN 0 ELSE LimbBits * (Len(a) - 1) + IntBitLen(a[Len(a)])

RECURSIVE BigShl(_, _)
BigShl(a, n) ==
  IF n = 0 THEN a
  ELSE IF n >= 10 THEN BigShl(BigMulSmall(a, 1024), n - 10)
  ELSE BigShl(BigMulSmall(a, 2), n - 1)

RECURSIVE Pow2(_)
Pow2(j) == IF j = 0 THEN 1 ELSE 2 * Pow2(j - 1)

\* a shifted right by n bits, with the last bit shifted out (round) and
\* whether any bit below it was set (sticky); at most 10 bits in one step
RECURSIVE BigShr(_, _, _, _)
BigShr(a, n, round, sticky) ==
  IF n = 0 THEN [q |-> a, round |-> round, sticky |-> sticky]
  ELSE LET j == IF n >= 10 THEN 10 ELSE n
           d == BigDivSmall(a, Pow2(j))
           half == Pow2(j - 1)
       IN BigShr(d.q, n - j, d.r \div half,
                 sticky \/ round = 1 \/ d.r % half # 0)

\* (n + a fraction, non-zero iff sticky) * 2^e rounded to a double:
\* round to nearest, ties to even
RoundToDouble(n, e, sticky) ==
  LET len == BigBitLen(n)
  IN IF len <= SigBits THEN [m |-> n, e |-> e]
     ELSE LET sh == BigShr(n, len - SigBits, 0, sticky)
              odd == sh.q # <<>> /\ sh.q[1] % 2 = 1
              up == sh.round = 1 /\ (sh.sticky \/ odd)
          IN [m |-> IF up THEN BigAddSmall(sh.q, 1) ELSE sh.q,
              e |-> e + (len - SigBits)]

\* the double nearest to t/1000, t >= 0
ToDouble(t) ==
  LET d == BigDivSmall(BigShl(BigFromInt(t), ScaleBits), 1000)
  IN RoundToDouble(d.q, 0 - ScaleBits, d.r # 0)

\* n * 100 in double arithmetic
Times100(d) == RoundToDouble(BigMulSmall(d.m, 100), d.e, FALSE)

\* Math.round(x) = floor(x + 1/2), for 0 <= x < 2^52, as an integer
MathRound(d) ==
  IF d.m = <<>> THEN 0
  ELSE (BigToInt(BigShr(d.m, (0 - d.e) - 1, 0, FALSE).q) + 1) \div 2

\* Math.round(n * 100) / 100: the quotient k / 100 is the double nearest to
\* the decimal with two fractional digits
Round2(v) == NumV(MathRound(Times100(ToDouble(v.val))) * 10)

\* Number(s) for a string s: trimmed; empty is 0; a decimal literal with at
\* most three fractional digits is its value; text that is no numeric
\* literal is NaN (exponents, hexadecimal and Infinity are not among the
\* inputs of the model)
RECURSIVE DigitsValue(_)
DigitsValue(s) ==
  IF s = <<>> THEN 0 ELSE DigitsValue(SubSeq(s, 1, Len(s) - 1)) * 10 + DigitVal(s[Len(s)])

Unsigned(s) == IF s # <<>> /\ s[1] \in {"+", "-"} THEN Tail(s) ELSE s

DotAt(s) == IF \E i \in 1..Len(s) : s[i] = "."
            THEN CHOOSE i \in 1..Len(s) : s[i] = "." /\ \A k \in 1..(i - 1) : s[k] # "."
            ELSE Len(s) + 1

IsDecimalLiteral(s) ==
  LET u == Unsigned(s)
      ip == SubSeq(u, 1, DotAt(u) - 1)
      fp == SubSeq(u, DotAt(u) + 1, Len(u))
  IN /\ AllIn(ip, DigitChars) /\ AllIn(fp, DigitChars)
     /\ Len(ip) + Len(fp) >= 1

RECURSIVE PadRight(_, _)
PadRight(s, n) == IF Len(s) >= n THEN s ELSE PadRight(Append(s, "0"), n)

StringToNumber(s) ==
  LET t == Trim(s)
      u == Unsigned(t)
      ip == SubSeq(u, 1, DotAt(u) - 1)
      fp == SubSeq(u, DotAt(u) + 1, Len(u))
      mag == DigitsValue(ip) * 1000 + DigitsValue(PadRight(fp, 3))
  IN CASE t = <<>> -> NumV(0)
       [] t # <<>> /\ ~IsDecimalLiteral(t) -> NaNV
       [] t # <<>> /\ IsDecimalLiteral(t) /\ Len(fp) <= 3 ->
            NumV(IF t[1] = "-" THEN 0 - mag ELSE mag)

\* Number(v)
ToNumber(v) ==
  CASE v.kind = "string" -> StringToNumber(v.val)
    [] v.kind \in {"number", "nan"} -> v
    [] v.kind = "boolean" -> NumV(IF v.val THEN 1000 ELSE 0)
    [] v.kind = "null" -> NumV(0)
    [] v.kind = "undefined" -> NaNV

(***************************************************************************)
(* Patterns and predicates used by the fragments                           *)
(***************************************************************************)
\* /^[a-z0-9-]+$/
SlugRegex(s) == Len(s) >= 1 /\ AllIn(s, LowerChars \cup DigitChars \cup {"-"})

\* /^[^\s@]+@[^\s@]+\.[^\s@]+$/
EmailRegex(s) ==
  \E i, j \in 1..Len(s) :
    /\ s[i] = "@" /\ s[j] = "."
    /\ 1 < i /\ i + 1 < j /\ j < Len(s)
    /\ \A k \in 1..Len(s) : k # i => s[k] \notin WhiteSpace \cup {"@"}

\* /^[0-9]{10}$/
Mobile10Regex(s) == Len(s) = 10 /\ AllIn(s, DigitChars)

\* /^[6-9]\d{9}$/
MobileINRegex(s) ==
  Len(s) = 10 /\ s[1] \in {"6", "7", "8", "9"} /\ AllIn(s, DigitChars)

\* /^[0-9]{6}$/
PinRegex(s) == Len(s) = 6 /\ AllIn(s, DigitChars)

\* /^[a-z0-9\s-]+$/
SlugSpaceRegex(s) ==
  Len(s) >= 1 /\ AllIn(s, LowerChars \cup DigitChars \cup WhiteSpace \cup {"-"})

\* /^[a-z]{5}\d{4}[a-z]$/i
PanRegex(s) ==
  /\ Len(s) = 10
  /\ \A i \in 1..10 :
       IF i \in 6..9 THEN s[i] \in DigitChars ELSE s[i] \in LowerChars \cup UpperChars

\* /^\d{2}[a-z0-9]{10}\d[zZ][a-z0-9]$/
GstinRegex(s) ==
  /\ Len(s) = 15
  /\ \A i \in 1..15 :
       CASE i \in {1, 2, 13} -> s[i] \in DigitChars
         [] i = 14 -> s[i] \in {"z", "Z"}
         [] OTHER -> s[i] \in LowerChars \cup DigitChars

\* /^[a-z0-9-]+(\.[a-z0-9-]+)+$/
DomainRegex(s) ==
  /\ Len(s) >= 3
  /\ AllIn(s, LowerChars \cup DigitChars \cup {"-", "."})
  /\ \E i \in 1..Len(s) : s[i] = "."
  /\ s[1] # "." /\ s[Len(s)] # "."
  /\ \A i \in 1..(Len(s) - 1) : ~(s[i] = "." /\ s[i + 1] = ".")

\* zod's uuid pattern: 8-4-4-4-12 hexadecimal digits
UuidRegex(s) ==
  /\ Len(s) = 36
  /\ \A i \in 1..36 :
       IF i \in {9, 14, 19, 24} THEN s[i] = "-" ELSE s[i] \in HexChars

\* new URL(s) does not throw, for the inputs of the model: a scheme, a colon
\* and, for http and https, a host
SchemeOf(s) ==
  IF \E i \in 1..Len(s) : s[i] = ":"
  THEN SubSeq(s, 1, (CHOOSE i \in 1..Len(s) : s[i] = ":" /\ \A k \in 1..(i - 1) : s[k] # ":") - 1)
  ELSE <<>>

RECURSIVE DropSlashes(_)
DropSlashes(s) == IF s # <<>> /\ Head(s) = "/" THEN DropSlashes(Tail(s)) ELSE s

UrlParses(s) ==
  LET scheme == ToLowerCase(SchemeOf(s))
      rest == SubSeq(s, Len(scheme) + 2, Len(s))
  IN /\ scheme # <<>>
     /\ scheme[1] \in LowerChars
     /\ AllIn(scheme, LowerChars \cup DigitChars \cup {"+", "-", "."})
     /\ AllIn(s, LowerChars \cup UpperChars \cup DigitChars \cup {":", "/", ".", "-", "+"})
     /\ scheme \in {<<"h", "t", "t", "p">>, <<"h", "t", "t", "p", "s">>}
          => LET host == DropSlashes(rest)
             IN host # <<>> /\ host[1] \notin {":", "."}

\* Date.parse(s) is not NaN, for the inputs of the model: the date-only form
\* YYYY-MM-DD with a month and a day that exist, and the date-time form
\* YYYY-MM-DDTHH:mm:ssZ; both denote a time in UTC
IsLeap(y) == (y % 4 = 0 /\ y % 100 # 0) \/ y % 400 = 0

DaysIn(y, m) ==
  IF m = 2 THEN (IF IsLeap(y) THEN 29 ELSE 28)
  ELSE IF m \in {4, 6, 9, 11} THEN 30 ELSE 31

Num2(s, i) == DigitVal(s[i]) * 10 + DigitVal(s[i + 1])

DateOnlyParses(s) ==
  /\ Len(s) = 10
  /\ \A i \in 1..10 : IF i \in {5, 8} THEN s[i] = "-" ELSE s[i] \in DigitChars
  /\ LET y == Num2(s, 1) * 100 + Num2(s, 3)
         m == Num2(s, 6)
         d == Num2(s, 9)
     IN m \in 1..12 /\ d \in 1..DaysIn(y, m)

TimeParses(s) ==
  /\ Len(s) = 10
  /\ s[1] = "T" /\ s[4] = ":" /\ s[7] = ":" /\ s[10] = "Z"
  /\ AllIn(<<s[2], s[3], s[5], s[6], s[8], s[9]>>, DigitChars)
  /\ Num2(s, 2) <= 23 /\ Num2(s, 5) <= 59 /\ Num2(s, 8) <= 59

DateParses(s) ==
  \/ DateOnlyParses(s)
  \/ Len(s) = 20 /\ DateOnlyParses(SubSeq(s, 1, 10)) /\ TimeParses(SubSeq(s, 11, 20))

\* the day number of a date, counted from 1970-01-01
DayNumber(y, m, d) ==
  LET yy == IF m <= 2 THEN y - 1 ELSE y
      era == yy \div 400
      yoe == yy - era * 400
      doy == (153 * (IF m > 2 THEN m - 3 ELSE m + 9) + 2) \div 5 + d - 1
  IN era * 146097 + yoe * 365 + yoe \div 4 - yoe \div 100 + doy - 719468

\* new Date(s).getTime() in seconds, for a text that parses (years 1970-2037)
GetTime(s) ==
  DayNumber(Num2(s, 1) * 100 + Num2(s, 3), Num2(s, 6), Num2(s, 9)) * 86400
    + (IF Len(s) = 20
       THEN Num2(s, 12) * 3600 + Num2(s, 15) * 60 + Num2(s, 18) ELSE 0)

(***************************************************************************)
(* zod schemas, as records                                                 *)
(***************************************************************************)
ZString(required_error, invalid_type_error) ==
  [type |-> "string", required_error |-> required_error,
   invalid_type_error |-> invalid_type_error, checks |-> <<>>]

ZNumber(required_error, invalid_type_error) ==
  [type |-> "number", required_error |-> required_error,
   invalid_type_error |-> invalid_type_error, checks |-> <<>>,
   coerce |-> [v \in Any |-> v]]

\* z.coerce.number(): the input is replaced by Number(input)
ZCoerceNumber ==
  [type |-> "number", required_error |-> NoMsg, invalid_type_error |-> NoMsg,
   checks |-> <<>>, coerce |-> [v \in Any |-> ToNumber(v)]]

\* z.any()
ZAny == [type |-> "any"]
\* z.object(shape), shape a sequence of [key, schema]
ZObject(shape) ==
  [type |-> "object", required_error |-> NoMsg, invalid_type_error |-> NoMsg,
   shape |-> shape]
\* z.array(element)
ZArray(element) ==
  [type |-> "array", required_error |-> NoMsg, invalid_type_error |-> NoMsg,
   element |-> element]
\* schema.default(value)
ZDefault(schema, value) == [type |-> "default", inner |-> schema, value |-> value]

ZBoolean(required_error, invalid_type_error) ==
  [type |-> "boolean", required_error |-> required_error,
   invalid_type_error |-> invalid_type_error]

\* z.enum(values, { errorMap: () => ({ message }) })
ZEnum(values, message) == [type |-> "enum", values |-> values, errorMap |-> message]

\* a check is the issue code it raises, the test it makes and its message
AddCheck(schema, code, holds, message) ==
  [schema EXCEPT !.checks = Append(@, [code |-> code, holds |-> holds,
                                       message |-> message])]

\* .min(1, message)
Min1(schema, message) ==
  AddCheck(schema, "too_small", [d \in Any |-> Len(d.val) >= 1], message)
\* .regex(re, message), re the test of a pattern on the characters
Regex(schema, re, message) ==
  AddCheck(schema, "invalid_string", [d \in Any |-> re[d.val]], message)
\* .url(message)
Url(schema, message) ==
  AddCheck(schema, "invalid_string", [d \in Any |-> UrlParses(d.val)], message)
\* .uuid(message)
Uuid(schema, message) ==
  AddCheck(schema, "invalid_string", [d \in Any |-> UuidRegex(d.val)], message)
\* .positive(message)
Positive(schema, message) ==
  AddCheck(schema, "too_small", [d \in Any |-> d.val > 0], message)

\* .int(), .min(n) and .max(n) of a number schema, with zod's own messages
IsInt(schema) ==
  AddCheck(schema, "invalid_type", [d \in Any |-> d.val % 1000 = 0],
           "Expected integer, received float")
Min(schema, n) ==
  AddCheck(schema, "too_small", [d \in Any |-> d.val >= n * 1000],
           "Number must be greater than or equal to " \o ToString(n))
Max(schema, n) ==
  AddCheck(schema, "too_big", [d \in Any |-> d.val <= n * 1000],
           "Number must be less than or equal to " \o ToString(n))

Optional(schema) == [type |-> "optional", inner |-> schema]
\* refine, transform and preprocess hold the function they are given
Refine(schema, fn, message) ==
  [type |-> "effects", effect |-> "refinement", fn |-> fn, message |-> message, inner |-> schema]
Transform(schema, fn) ==
  [type |-> "effects", effect |-> "transform", fn |-> fn, message |-> NoMsg, inner |-> schema]
Preprocess(fn, schema) ==
  [type |-> "effects", effect |-> "preprocess", fn |-> fn, message |-> NoMsg, inner |-> schema]
Pipe(in, out) == [type |-> "pipeline", in |-> in, out |-> out]
Union(a, b) == [type |-> "union", first |-> a, second |-> b]

(***************************************************************************)
(* zod's parsing of a value against a schema                               *)
(***************************************************************************)
Valid(v) == [status |-> "valid", value |-> v, issues |-> <<>>]
Aborted(issues) == [status |-> "aborted", value |-> Undef, issues |-> issues]
Issue(code, received, message) ==
  [code |-> code, received |-> received, message |-> message]

\* zod's default error map
DefaultError(code, expected, received) ==
  IF code = "invalid_type"
  THEN IF received = "undefined" THEN "Required"
       ELSE "Expected " \o expected \o ", received " \o received
  ELSE "Invalid input"

\* the issue of a value that is not of the schema's type: required_error for
\* undefined, invalid_type_error otherwise, zod's default text when unset
TypeIssue(schema, expected, data) ==
  LET dflt == DefaultError("invalid_type", expected, ParsedType(data))
  IN Issue("invalid_type", ParsedType(data),
           IF data = Undef THEN Nullish(schema.required_error, dflt)
           ELSE Nullish(schema.invalid_type_error, dflt))

\* every check runs; each failed one adds its issue
RECURSIVE CheckIssues(_, _)
CheckIssues(checks, data) ==
  IF checks = <<>> THEN <<>>
  ELSE (IF Head(checks).holds[data] THEN <<>>
        ELSE <<Issue(Head(checks).code, ParsedType(data), Head(checks).message)>>)
       \o CheckIssues(Tail(checks), data)

Checked(schema, data) ==
  LET issues == CheckIssues(schema.checks, data)
  IN [status |-> IF issues = <<>> THEN "valid" ELSE "dirty",
      value |-> data, issues |-> issues]

\* the issues of the parts of an object or an array, in order
RECURSIVE AllIssues(_)
AllIssues(parts) ==
  IF parts = <<>> THEN <<>> ELSE Head(parts).issues \o AllIssues(Tail(parts))

\* zod's mergeArray and mergeObjectSync: aborted if a part is aborted, dirty
\* if a part is dirty
Merged(parts, value) ==
  IF \E i \in 1..Len(parts) : parts[i].status = "aborted"
  THEN Aborted(AllIssues(parts))
  ELSE [status |-> IF \E i \in 1..Len(parts) : parts[i].status = "dirty"
                   THEN "dirty" ELSE "valid",
        value |-> value, issues |-> AllIssues(parts)]

RECURSIVE Parse(_, _)
Parse(schema, data) ==
  CASE schema.type = "string" ->
         IF ParsedType(data) # "string"
         THEN Aborted(<<TypeIssue(schema, "string", data)>>)
         ELSE Checked(schema, data)
    [] schema.type = "number" ->
         LET d == schema.coerce[data]
         IN IF ParsedType(d) # "number"
            THEN Aborted(<<TypeIssue(schema, "number", d)>>)
            ELSE Checked(schema, d)
    [] schema.type = "boolean" ->
         IF ParsedType(data) # "boolean"
         THEN Aborted(<<TypeIssue(schema, "boolean", data)>>)
         ELSE Valid(data)
    [] schema.type = "enum" ->
         IF ParsedType(data) # "string"
         THEN Aborted(<<Issue("invalid_type", ParsedType(data), schema.errorMap)>>)
         ELSE IF \E i \in 1..Len(schema.values) : schema.values[i] = data.val
         THEN Valid(data)
         ELSE Aborted(<<Issue("invalid_enum_value", ParsedType(data), schema.errorMap)>>)
    [] schema.type = "optional" ->
         IF data = Undef THEN Valid(Undef) ELSE Parse(schema.inner, data)
    [] schema.type = "effects" /\ schema.effect = "preprocess" ->
         Parse(schema.inner, schema.fn[data])
    [] schema.type = "effects" /\ schema.effect = "refinement" ->
         LET inner == Parse(schema.inner, data)
         IN IF inner.status = "aborted" \/ schema.fn[inner.value]
            THEN inner
            ELSE [status |-> "dirty", value |-> inner.value,
                  issues |-> Append(inner.issues,
                                    Issue("custom", ParsedType(inner.value), schema.message))]
    [] schema.type = "effects" /\ schema.effect = "transform" ->
         LET base == Parse(schema.inner, data)
         IN IF base.status # "valid" THEN base
            ELSE [base EXCEPT !.value = schema.fn[base.value]]
    [] schema.type = "pipeline" ->
         LET inResult == Parse(schema.in, data)
         IN IF inResult.status # "valid" THEN inResult
            ELSE Parse(schema.out, inResult.value)
    [] schema.type = "union" ->
         LET a == Parse(schema.first, data)
             b == Parse(schema.second, data)
         IN IF a.status = "valid" THEN a
            ELSE IF b.status = "valid" THEN b
            ELSE IF a.status = "dirty" THEN a
            ELSE IF b.status = "dirty" THEN b
            ELSE Aborted(<<Issue("invalid_union", ParsedType(data),
                                 DefaultError("invalid_union", "", ParsedType(data)))>>)
    [] schema.type = "any" -> Valid(data)
    [] schema.type = "default" ->
         Parse(schema.inner, IF data = Undef THEN schema.value ELSE data)
    [] schema.type = "object" ->
         IF ParsedType(data) # "object"
         THEN Aborted(<<TypeIssue(schema, "object", data)>>)
         ELSE LET shape == schema.shape
                  parts == [i \in 1..Len(shape) |->
                              Parse(shape[i].schema, Get(data, shape[i].key))]
                  \* unknown keys are stripped; a key is kept when the
                  \* input has it or its parsed value is defined
                  kept == {i \in 1..Len(shape) :
                             \/ shape[i].key \in DOMAIN data.fields
                             \/ parts[i].value # Undef}
              IN Merged(parts,
                        ObjV([k \in {shape[i].key : i \in kept} |->
                                parts[CHOOSE i \in kept : shape[i].key = k].value]))
    [] schema.type = "array" ->
         IF ParsedType(data) # "array"
         THEN Aborted(<<TypeIssue(schema, "array", data)>>)
         ELSE LET parts == [i \in 1..Len(data.val) |-> Parse(schema.element, data.val[i])]
              IN Merged(parts, ArrV([i \in 1..Len(data.val) |-> parts[i].value]))

\* schema.safeParse(data): success with the output, or failure with the issues
SafeParse(schema, data) ==
  LET r == Parse(schema, data)
  IN IF r.status = "valid"
     THEN [success |-> TRUE, data |-> r.value, issues |-> <<>>]
     ELSE [success |-> FALSE, data |-> Undef, issues |-> r.issues]

(***************************************************************************)
(* src/index.ts: the fragment factories                                    *)
(***************************************************************************)
\* a default parameter value: label = "This field"
Default(lbl, dflt) == IF lbl = NoMsg THEN dflt ELSE lbl

\* typeof customMessages === "string" ? { <classes>: customMessages }
\*                                     : customMessages || {}
Messages(customMessages, classes) ==
  IF customMessages.kind = "string"
  THEN [required |-> IF "required" \in classes THEN customMessages.val ELSE NoMsg,
        invalid |-> IF "invalid" \in classes THEN customMessages.val ELSE NoMsg,
        validation |-> IF "validation" \in classes THEN customMessages.val ELSE NoMsg]
  ELSE MessagesOrEmpty(customMessages)

\* requiredString with the string override left out of the min(1) message
requiredStringNoValidation(lbl, customMessages) ==
  LET l == Default(lbl, "This field")
      messages == Messages(customMessages, {"required", "invalid"})
  IN Min1(ZString(Or(messages.required, Tpl(l, FIELD_ERRORS.REQUIRED)),
                  Or(messages.invalid, Tpl(l, FIELD_ERRORS.STRING))),
          Or(messages.validation, Tpl(l, FIELD_ERRORS.REQUIRED)))

requiredString(lbl, customMessages) ==
  LET l == Default(lbl, "This field")
      messages == Messages(customMessages, {"required", "invalid", "validation"})
  IN Min1(ZString(Or(messages.required, Tpl(l, FIELD_ERRORS.REQUIRED)),
                  Or(messages.invalid, Tpl(l, FIELD_ERRORS.STRING))),
          Or(messages.validation, Or(messages.required, Tpl(l, FIELD_ERRORS.REQUIRED))))

optionalString(lbl, customMessages) ==
  LET l == Default(lbl, "This field")
      messages == Messages(customMessages, {"invalid"})
  IN Optional(ZString(NoMsg, Or(messages.invalid, Tpl(l, FIELD_ERRORS.STRING))))

requiredNumber(lbl, customMessages) ==
  LET l == Default(lbl, "This field")
      messages == Messages(customMessages, {"required", "invalid"})
  IN ZNumber(Or(messages.required, Tpl(l, FIELD_ERRORS.REQUIRED)),
             Or(messages.invalid, Tpl(l, FIELD_ERRORS.NUMBER)))

positiveNumber(lbl, customMessages) ==
  LET l == Default(lbl, "This field")
      messages == Messages(customMessages, {"invalid", "validation"})
  IN Positive(ZNumber(NoMsg, Or(messages.invalid, Tpl(l, FIELD_ERRORS.NUMBER))),
              Or(messages.validation, l \o " must be positive"))

optionalNumber(lbl, customMessages) ==
  LET l == Default(lbl, "This field")
      messages == Messages(customMessages, {"invalid"})
  IN Optional(ZNumber(NoMsg, Or(messages.invalid, Tpl(l, FIELD_ERRORS.NUMBER))))

boolean(lbl, customMessages) ==
  LET l == Default(lbl, "This field")
      messages == Messages(customMessages, {"invalid"})
  IN ZBoolean(NoMsg, Or(messages.invalid, Tpl(l, FIELD_ERRORS.BOOLEAN)))

optionalBoolean(lbl, customMessages) ==
  LET l == Default(lbl, "This field")
      messages == Messages(customMessages, {"invalid"})
  IN Optional(ZBoolean(NoMsg, Or(messages.invalid, Tpl(l, FIELD_ERRORS.BOOLEAN))))

\* uuid with requiredString's fallback of the format message to messages.required
uuidRequiredFallback(lbl, customMessages) ==
  LET l == Default(lbl, "ID")
      messages == Messages(customMessages, {"required", "invalid", "validation"})
  IN Uuid(ZString(Or(messages.required, Tpl(l, FIELD_ERRORS.REQUIRED)),
                  Or(messages.invalid, Tpl(l, FIELD_ERRORS.STRING))),
          Or(messages.validation, Or(messages.required, Tpl(l, FIELD_ERRORS.UUID))))

uuid(lbl, customMessages) ==
  LET l == Default(lbl, "ID")
      messages == Messages(customMessages, {"required", "invalid", "validation"})
  IN Uuid(ZString(Or(messages.required, Tpl(l, FIELD_ERRORS.REQUIRED)),
                  Or(messages.invalid, Tpl(l, FIELD_ERRORS.STRING))),
          Or(messages.validation, Tpl(l, FIELD_ERRORS.UUID)))

\* optionalUUID without .optional()
optionalUUIDNotOptional(lbl, customMessages) == uuid(Default(lbl, "ID"), customMessages)

optionalUUID(lbl, customMessages) == Optional(uuid(Default(lbl, "ID"), customMessages))

\* Enum joining the options with "," instead of ", "
EnumJoinComma(opts, lbl, customMessages) ==
  LET l == Default(lbl, "This field")
      messages == Messages(customMessages, {"validation"})
  IN ZEnum(opts, Or(messages.validation,
                    l \o " " \o FIELD_ERRORS.ENUM \o " " \o Join(opts, ",")))

Enum(opts, lbl, customMessages) ==
  LET l == Default(lbl, "This field")
      messages == Messages(customMessages, {"validation"})
  IN ZEnum(opts, Or(messages.validation,
                    l \o " " \o FIELD_ERRORS.ENUM \o " " \o Join(opts, ", ")))

dateString(lbl, customMessages) ==
  LET l == Default(lbl, "Date")
      messages == Messages(customMessages, {"required", "invalid", "validation"})
  IN Refine(ZString(Or(messages.required, Tpl(l, FIELD_ERRORS.REQUIRED)),
                    Or(messages.invalid, Tpl(l, FIELD_ERRORS.STRING))),
            [v \in Any |-> DateParses(v.val)],
            Or(messages.validation, Tpl(l, FIELD_ERRORS.DATE)))

optionalDate(lbl, customMessages) ==
  Optional(dateString(Default(lbl, "Date"), customMessages))

fileUrl(lbl, customMessages) ==
  LET l == Default(lbl, "File URL")
      messages == Messages(customMessages, {"validation"})
  IN Optional(Url(ZString(NoMsg, NoMsg),
                  Or(messages.validation, Tpl(l, FIELD_ERRORS.URL))))

imageUrl(lbl, customMessages) ==
  LET l == Default(lbl, "Image URL")
      messages == Messages(customMessages, {"validation"})
  IN Optional(Url(ZString(NoMsg, NoMsg),
                  Or(messages.validation, Tpl(l, FIELD_ERRORS.URL))))

slug(lbl, customMessages) ==
  LET l == Default(lbl, "Slug")
      messages == Messages(customMessages, {"invalid", "validation"})
  IN Optional(Regex(ZString(NoMsg, Or(messages.invalid, Tpl(l, FIELD_ERRORS.STRING))),
                    [s \in Any |-> SlugRegex(s)],
                    Or(messages.validation, Tpl(l, FIELD_ERRORS.SLUG_FORMAT))))

paginationFields ==
  <<[key |-> "page",
     schema |-> ZDefault(Positive(IsInt(ZNumber(NoMsg, NoMsg)), "Number must be greater than 0"),
                         NumV(1000))],
    [key |-> "limit",
     schema |-> ZDefault(Positive(IsInt(ZNumber(NoMsg, NoMsg)), "Number must be greater than 0"),
                         NumV(10000))]>>

emailOrMobile(lbl, customMessages) ==
  LET l == Default(lbl, "Identifier")
      messages == Messages(customMessages, {"required", "invalid", "validation"})
  IN Refine(ZString(Or(messages.required, Tpl(l, FIELD_ERRORS.REQUIRED)),
                    Or(messages.invalid, Tpl(l, FIELD_ERRORS.STRING))),
            [v \in Any |-> EmailRegex(v.val) \/ Mobile10Regex(v.val)],
            Or(messages.validation,
               l \o " " \o FIELD_ERRORS.EMAIL \o " or " \o FIELD_ERRORS.MOBILE))

(***************************************************************************)
(* src/extensions.ts                                                       *)
(***************************************************************************)
\* emailOrMobileNormalized without the removal of the "+91" prefix
emailOrMobileNormalizedKeepPrefix(lbl, msg) ==
  LET l == Default(lbl, "Identifier")
  IN Transform(
       Refine(
         Transform(ZString(MsgOr(msg, "required", Tpl(l, FIELD_ERRORS.REQUIRED)),
                           MsgOr(msg, "invalid", Tpl(l, FIELD_ERRORS.STRING))),
                   [raw \in Any |-> StrV(StripSpaceHyphen(Trim(raw.val)))]),
         [raw \in Any |-> EmailRegex(raw.val) \/ MobileINRegex(raw.val)],
         MsgOr(msg, "validation", l \o " must be a valid email or mobile")),
       [raw \in Any |->
          IF EmailRegex(raw.val)
          THEN [kind |-> "object", type |-> "email", value |-> ToLowerCase(raw.val)]
          ELSE [kind |-> "object", type |-> "mobile", value |-> raw.val]])

emailOrMobileNormalized(lbl, msg) ==
  LET l == Default(lbl, "Identifier")
  IN Transform(
       Refine(
         Transform(
           Transform(ZString(MsgOr(msg, "required", Tpl(l, FIELD_ERRORS.REQUIRED)),
                             MsgOr(msg, "invalid", Tpl(l, FIELD_ERRORS.STRING))),
                     [raw \in Any |-> StrV(StripSpaceHyphen(Trim(raw.val)))]),
           [raw \in Any |-> IF StartsWith(raw.val, <<"+", "9", "1">>)
                            THEN StrV(SubSeq(raw.val, 4, Len(raw.val))) ELSE raw]),
         [raw \in Any |-> EmailRegex(raw.val) \/ MobileINRegex(raw.val)],
         MsgOr(msg, "validation", l \o " must be a valid email or mobile")),
       [raw \in Any |->
          IF EmailRegex(raw.val)
          THEN [kind |-> "object", type |-> "email", value |-> ToLowerCase(raw.val)]
          ELSE [kind |-> "object", type |-> "mobile", value |-> raw.val]])

requiredStringTrimmed(lbl, msg) ==
  Transform(requiredString(Default(lbl, "This field"), msg),
            [v \in Any |-> StrV(Trim(v.val))])

emailNormalized(lbl, msg) ==
  LET l == Default(lbl, "Email")
  IN Refine(Transform(requiredString(l, msg),
                      [v \in Any |-> StrV(ToLowerCase(Trim(v.val)))]),
            [v \in Any |-> EmailRegex(v.val)],
            MsgOr(msg, "validation", Tpl(l, FIELD_ERRORS.EMAIL)))

requiredSlugNormalized(lbl, msg) ==
  LET l == Default(lbl, "Slug")
  IN Transform(Regex(ZString(NoMsg, MsgOr(msg, "invalid", Tpl(l, FIELD_ERRORS.STRING))),
                     [s \in Any |-> SlugSpaceRegex(s)],
                     MsgOr(msg, "validation", Tpl(l, FIELD_ERRORS.SLUG_FORMAT))),
               [v \in Any |-> StrV(ToLowerCase(Trim(v.val)))])

optionalSlugNormalized(lbl, msg) ==
  LET l == Default(lbl, "Slug")
  IN Optional(
       Transform(Regex(ZString(NoMsg, MsgOr(msg, "invalid", Tpl(l, FIELD_ERRORS.STRING))),
                       [s \in Any |-> SlugSpaceRegex(s)],
                       MsgOr(msg, "validation", Tpl(l, FIELD_ERRORS.SLUG_FORMAT))),
                 [v \in Any |-> StrV(ToLowerCase(Trim(v.val)))]))

pan(lbl, msg) ==
  LET l == Default(lbl, "PAN")
  IN Transform(Regex(requiredString(l, msg), [s \in Any |-> PanRegex(s)],
                     MsgOr(msg, "validation", l \o " must be a valid PAN")),
               [v \in Any |-> StrV(ToLowerCase(Trim(v.val)))])

gstin(lbl, msg) ==
  LET l == Default(lbl, "GSTIN")
  IN Transform(Regex(requiredString(l, msg), [s \in Any |-> GstinRegex(s)],
                     MsgOr(msg, "validation", l \o " must be a valid GSTIN")),
               [v \in Any |-> StrV(ToLowerCase(Trim(v.val)))])

domain(lbl, msg) ==
  LET l == Default(lbl, "Domain")
  IN Transform(Regex(requiredString(l, msg), [s \in Any |-> DomainRegex(s)],
                     MsgOr(msg, "validation", l \o " must be a valid domain")),
               [v \in Any |-> StrV(ToLowerCase(Trim(v.val)))])

pinCode(lbl, msg) ==
  LET l == Default(lbl, "PIN Code")
  IN Regex(requiredString(l, msg), [s \in Any |-> PinRegex(s)],
           MsgOr(msg, "validation", l \o " must be 6 digits"))

inMobile(lbl, msg) ==
  LET l == Default(lbl, "Mobile")
  IN Refine(Transform(Transform(requiredString(l, msg),
                                [v \in Any |-> StrV(StripSpaceHyphen(v.val))]),
                      [v \in Any |-> IF StartsWith(v.val, <<"+", "9", "1">>)
                                     THEN StrV(SubSeq(v.val, 4, Len(v.val))) ELSE v]),
            [v \in Any |-> MobileINRegex(v.val)],
            MsgOr(msg, "validation", Tpl(l, FIELD_ERRORS.MOBILE)))

httpsUrl(lbl, msg) ==
  LET l == Default(lbl, "URL")
  IN Refine(Url(requiredString(l, msg), MsgOr(msg, "validation", Tpl(l, FIELD_ERRORS.URL))),
            [v \in Any |-> StartsWith(v.val, <<"h", "t", "t", "p", "s", ":", "/", "/">>)],
            l \o " must use https")

buildPagination(maxLimit) ==
  ZObject(<<[key |-> "page",
             schema |-> ZDefault(Min(IsInt(ZCoerceNumber), 1), NumV(1000))],
            [key |-> "limit",
             schema |-> ZDefault(Max(Min(IsInt(ZCoerceNumber), 1), maxLimit), NumV(10000))]>>)

isoDateTime(lbl, msg) ==
  LET l == Default(lbl, "Date")
  IN Refine(requiredString(l, msg), [v \in Any |-> DateParses(v.val)],
            MsgOr(msg, "validation", Tpl(l, FIELD_ERRORS.DATE)))

\* dateRange rejecting a start equal to the end
dateRangeStrict ==
  Refine(ZObject(<<[key |-> "start", schema |-> isoDateTime("Start date", NoOverride)],
                   [key |-> "end", schema |-> isoDateTime("End date", NoOverride)]>>),
         [r \in Any |->
            /\ DateParses(r.fields.start.val) /\ DateParses(r.fields.end.val)
            /\ GetTime(r.fields.start.val) < GetTime(r.fields.end.val)],
         "Start date must be before or equal to end date")

\* a comparison with an invalid Date (NaN) is false
dateRange ==
  Refine(ZObject(<<[key |-> "start", schema |-> isoDateTime("Start date", NoOverride)],
                   [key |-> "end", schema |-> isoDateTime("End date", NoOverride)]>>),
         [r \in Any |->
            /\ DateParses(r.fields.start.val) /\ DateParses(r.fields.end.val)
            /\ GetTime(r.fields.start.val) <= GetTime(r.fields.end.val)],
         "Start date must be before or equal to end date")

dateAfter(minISO, lbl) ==
  LET l == Default(lbl, "Date")
  IN Refine(isoDateTime(l, NoOverride),
            [v \in Any |->
               /\ DateParses(v.val) /\ DateParses(minISO)
               /\ GetTime(v.val) > GetTime(minISO)],
            l \o " must be after " \o Text(minISO))

\* uniqueArrayBy comparing each element with the next one only
uniqueArrayByNeighbours(schema, key, lbl) ==
  Refine(ZArray(schema),
         [arr \in Any |->
            \A i \in 1..(Len(arr.val) - 1) :
              Get(arr.val[i], key) # Get(arr.val[i + 1], key)],
         Default(lbl, "Array") \o " must have unique " \o key)

uniqueArrayBy(schema, key, lbl) ==
  Refine(ZArray(schema),
         [arr \in Any |->
            Cardinality({Get(arr.val[i], key) : i \in 1..Len(arr.val)}) = Len(arr.val)],
         Default(lbl, "Array") \o " must have unique " \o key)

coerceNumber ==
  Preprocess([v \in Any |-> IF v = StrV(<<>>) \/ v = Null \/ v = Undef
                            THEN Undef ELSE ToNumber(v)],
             ZNumber(NoMsg, NoMsg))

optionalNumberCoerce(lbl, msg) ==
  Pipe(coerceNumber, optionalNumber(Default(lbl, "This field"), msg))

coerceBoolean ==
  Preprocess([v \in Any |->
                IF v.kind = "boolean" THEN v
                ELSE IF \/ (v.kind = "string" /\ v.val = <<"t", "r", "u", "e">>)
                        \/ (v.kind = "string" /\ v.val = <<"1">>)
                        \/ (v.kind = "number" /\ v.val = 1000)
                THEN BoolV(TRUE)
                ELSE IF \/ (v.kind = "string" /\ v.val = <<"f", "a", "l", "s", "e">>)
                        \/ (v.kind = "string" /\ v.val = <<"0">>)
                        \/ (v.kind = "number" /\ v.val = 0)
                THEN BoolV(FALSE)
                ELSE v],
             ZBoolean(NoMsg, NoMsg))

booleanCoerce(lbl, msg) ==
  Pipe(coerceBoolean, boolean(Default(lbl, "This field"), msg))

money(lbl, msg) ==
  LET l == Default(lbl, "Amount")
  IN Transform(
       Refine(
         Refine(Transform(Union(ZNumber(NoMsg, NoMsg), ZString(NoMsg, NoMsg)),
                          [v \in Any |-> IF v.kind = "string" THEN ToNumber(v) ELSE v]),
                [n \in Any |-> n.kind = "number"],
                MsgOr(msg, "invalid", Tpl(l, FIELD_ERRORS.NUMBER))),
         [n \in Any |-> n.kind = "number" /\ n.val >= 0],
         MsgOr(msg, "validation", l \o " must be >= 0")),
       [n \in Any |-> Round2(n)])

(***************************************************************************)
(* The state machine: each step calls one factory and validates one value  *)
(* with the fragment it returns.                                           *)
(***************************************************************************)
Empty == <<>>
Blank == <<" ">>
Abc == <<"a", "b", "c">>
SlugText == <<"a", "-", "b">>
Mixed == <<"A", " ", "b">>
UuidText == <<"1", "2", "3", "e", "4", "5", "6", "7", "-", "e", "8", "9", "b", "-", "1", "2", "d", "3", "-", "a", "4", "5", "6", "-", "4", "2", "6", "6", "1", "4", "1", "7", "4", "0", "0", "0">>
DateText == <<"2", "0", "2", "4", "-", "0", "1", "-", "0", "1">>
BadDate == <<"2", "0", "2", "4", "-", "1", "3", "-", "0", "1">>
HttpsText == <<"h", "t", "t", "p", "s", ":", "/", "/", "a", ".", "b", "c">>
HttpText == <<"h", "t", "t", "p", ":", "/", "/", "a", ".", "b", "c">>
EmailText == <<"a", "@", "b", ".", "c", "o">>
MobileText == <<"9", "8", "7", "6", "5", "4", "3", "2", "1", "0">>
LowMobile == <<"1", "2", "3", "4", "5", "6", "7", "8", "9", "0">>
PinText == <<"5", "6", "0", "0", "0", "1">>
TwelveText == <<"1", "2">>
PrefixedMobile == <<"+", "9", "1", " ", "9", "8", "7", "6", "5", "-", "4", "3", "2", "1", "0">>

StringInputs ==
  {StrV(Empty), StrV(Blank), StrV(Abc), StrV(SlugText), StrV(Mixed), StrV(UuidText),
   StrV(DateText), StrV(BadDate), StrV(HttpsText), StrV(HttpText), StrV(EmailText),
   StrV(MobileText), StrV(LowMobile), StrV(PinText), StrV(TwelveText),
   StrV(PrefixedMobile)}

NumberInputs == {NumV(0 - 1000), NumV(0), NumV(1000), NumV(12000), NaNV}

Inputs == {Undef, Null, BoolV(TRUE), BoolV(FALSE)} \cup NumberInputs \cup StringInputs

\* NoMsg as a label: the argument is omitted and the default label applies
Labels == {NoMsg, "X"}

Overrides ==
  {NoOverride, StrOverride(""), StrOverride("custom")}
    \cup {ObjOverride(r, i, v) : r \in {NoMsg, "", "r"}, i \in {NoMsg, "", "i"},
                                 v \in {NoMsg, "", "bad"}}

OptionLists ==
  {<< <<"a">>, <<"b">> >>, << <<"b">>, <<"a">> >>, << <<"a">> >>,
   << <<"a">>, <<"b">>, <<"c", "d">> >>}

EnumInputs ==
  {Undef, Null, NumV(1000), BoolV(TRUE),
   StrV(<<>>), StrV(<<"a">>), StrV(<<"b">>), StrV(<<"c">>), StrV(<<"c", "d">>),
   StrV(<<"a", ",", " ", "b">>), StrV(<<"A">>)}

\* loosely typed inputs of the coercion helpers (numeric strings within the
\* range of the model's numbers)
CoerceInputs ==
  {Undef, Null, BoolV(TRUE), BoolV(FALSE), StrV(Empty), StrV(Blank), StrV(Abc),
   StrV(TwelveText), StrV(<<"1", ".", "5">>), StrV(<<"-", "1">>), StrV(DateText)}
    \cup NumberInputs

\* loosely typed inputs of booleanCoerce
BooleanCoerceInputs ==
  {Undef, Null, BoolV(TRUE), BoolV(FALSE), StrV(Empty), StrV(Abc),
   StrV(<<"t", "r", "u", "e">>), StrV(<<"f", "a", "l", "s", "e">>),
   StrV(<<"1">>), StrV(<<"0">>), StrV(<<"T", "r", "u", "e">>), StrV(<<"y", "e", "s">>),
   NumV(2000)}
    \cup NumberInputs

NoResult == [success |-> TRUE, data |-> Undef, issues |-> <<>>]

Init ==
  /\ factory = "none"
  /\ label = NoMsg
  /\ override = NoOverride
  /\ options = <<>>
  /\ input = Undef
  /\ result = NoResult

\* no call is in progress
Idle == factory = "none"

\* factory(lbl, cm).safeParse(v)
Validate(name, lbl, cm, opts, v, schema) ==
  /\ factory' = name
  /\ label' = lbl
  /\ override' = cm
  /\ options' = opts
  /\ input' = v
  /\ result' = SafeParse(schema, v)

CallRequiredString ==
  /\ Idle
  /\ \E lbl \in Labels, cm \in Overrides, v \in Inputs :
       Validate("requiredString", lbl, cm, <<>>, v, requiredString(lbl, cm))
CallOptionalString ==
  /\ Idle
  /\ \E lbl \in Labels, cm \in Overrides, v \in Inputs :
       Validate("optionalString", lbl, cm, <<>>, v, optionalString(lbl, cm))
CallRequiredNumber ==
  /\ Idle
  /\ \E lbl \in Labels, cm \in Overrides, v \in Inputs :
       Validate("requiredNumber", lbl, cm, <<>>, v, requiredNumber(lbl, cm))
CallPositiveNumber ==
  /\ Idle
  /\ \E lbl \in Labels, cm \in Overrides, v \in Inputs :
       Validate("positiveNumber", lbl, cm, <<>>, v, positiveNumber(lbl, cm))
CallOptionalNumber ==
  /\ Idle
  /\ \E lbl \in Labels, cm \in Overrides, v \in Inputs :
       Validate("optionalNumber", lbl, cm, <<>>, v, optionalNumber(lbl, cm))
CallBoolean ==
  /\ Idle
  /\ \E lbl \in Labels, cm \in Overrides, v \in Inputs :
       Validate("boolean", lbl, cm, <<>>, v, boolean(lbl, cm))
CallOptionalBoolean ==
  /\ Idle
  /\ \E lbl \in Labels, cm \in Overrides, v \in Inputs :
       Validate("optionalBoolean", lbl, cm, <<>>, v, optionalBoolean(lbl, cm))
CallUuid ==
  /\ Idle
  /\ \E lbl \in Labels, cm \in Overrides, v \in Inputs :
       Validate("uuid", lbl, cm, <<>>, v, uuid(lbl, cm))
CallOptionalUUID ==
  /\ Idle
  /\ \E lbl \in Labels, cm \in Overrides, v \in Inputs :
       Validate("optionalUUID", lbl, cm, <<>>, v, optionalUUID(lbl, cm))
CallEnum ==
  /\ Idle
  /\ \E opts \in OptionLists, lbl \in Labels \cup {"Role"}, cm \in Overrides, v \in EnumInputs :
       Validate("Enum", lbl, cm, opts, v, Enum(opts, lbl, cm))
CallDateString ==
  /\ Idle
  /\ \E lbl \in Labels, cm \in Overrides, v \in Inputs :
       Validate("dateString", lbl, cm, <<>>, v, dateString(lbl, cm))
CallOptionalDate ==
  /\ Idle
  /\ \E lbl \in Labels, cm \in Overrides, v \in Inputs :
       Validate("optionalDate", lbl, cm, <<>>, v, optionalDate(lbl, cm))
CallFileUrl ==
  /\ Idle
  /\ \E lbl \in Labels, cm \in Overrides, v \in Inputs :
       Validate("fileUrl", lbl, cm, <<>>, v, fileUrl(lbl, cm))
CallImageUrl ==
  /\ Idle
  /\ \E lbl \in Labels, cm \in Overrides, v \in Inputs :
       Validate("imageUrl", lbl, cm, <<>>, v, imageUrl(lbl, cm))
CallSlug ==
  /\ Idle
  /\ \E lbl \in Labels, cm \in Overrides, v \in Inputs :
       Validate("slug", lbl, cm, <<>>, v, slug(lbl, cm))
CallEmailOrMobile ==
  /\ Idle
  /\ \E lbl \in Labels, cm \in Overrides, v \in Inputs :
       Validate("emailOrMobile", lbl, cm, <<>>, v, emailOrMobile(lbl, cm))
CallPinCode ==
  /\ Idle
  /\ \E lbl \in Labels, cm \in Overrides, v \in Inputs :
       Validate("pinCode", lbl, cm, <<>>, v, pinCode(lbl, cm))
CallInMobile ==
  /\ Idle
  /\ \E lbl \in Labels, cm \in Overrides, v \in Inputs :
       Validate("inMobile", lbl, cm, <<>>, v, inMobile(lbl, cm))
CallHttpsUrl ==
  /\ Idle
  /\ \E lbl \in Labels, cm \in Overrides, v \in Inputs :
       Validate("httpsUrl", lbl, cm, <<>>, v, httpsUrl(lbl, cm))
CallOptionalNumberCoerce ==
  /\ Idle
  /\ \E lbl \in Labels, cm \in Overrides, v \in CoerceInputs :
       Validate("optionalNumberCoerce", lbl, cm, <<>>, v, optionalNumberCoerce(lbl, cm))
CallBooleanCoerce ==
  /\ Idle
  /\ \E lbl \in Labels, cm \in Overrides, v \in BooleanCoerceInputs :
       Validate("booleanCoerce", lbl, cm, <<>>, v, booleanCoerce(lbl, cm))

\* the caller has consumed the result; fragments keep no state between calls
Return ==
  /\ ~Idle
  /\ factory' = "none"
  /\ label' = NoMsg
  /\ override' = NoOverride
  /\ options' = <<>>
  /\ input' = Undef
  /\ result' = NoResult

Next ==
  \/ Return
  \/ CallRequiredString
  \/ CallOptionalString
  \/ CallRequiredNumber
  \/ CallPositiveNumber
  \/ CallOptionalNumber
  \/ CallBoolean
  \/ CallOptionalBoolean
  \/ CallUuid
  \/ CallOptionalUUID
  \/ CallEnum
  \/ CallDateString
  \/ CallOptionalDate
  \/ CallFileUrl
  \/ CallImageUrl
  \/ CallSlug
  \/ CallEmailOrMobile
  \/ CallPinCode
  \/ CallInMobile
  \/ CallHttpsUrl
  \/ CallOptionalNumberCoerce
  \/ CallBooleanCoerce

Spec == Init /\ [][Next]_vars

(***************************************************************************)
(* money: amounts given as numbers and as decimal strings                  *)
(***************************************************************************)
\* amounts 0.000 .. MaxMilli/1000 are validated, as numbers and as strings
MaxMilli == 200

RECURSIVE IntText(_)
IntText(n) ==
  IF n < 10 THEN <<DigitSeq[n + 1]>>
  ELSE Append(IntText(n \div 10), DigitSeq[(n % 10) + 1])

\* the decimal literal of t/1000 with three fractional digits
DecimalText(t) ==
  IntText(t \div 1000) \o <<".">>
    \o <<DigitSeq[((t \div 100) % 10) + 1], DigitSeq[((t \div 10) % 10) + 1],
         DigitSeq[(t % 10) + 1]>>

MoneyAmounts == (0..MaxMilli) \cup {1005, 12345}

MoneyInputs ==
  {NumV(t) : t \in MoneyAmounts} \cup {StrV(DecimalText(t)) : t \in MoneyAmounts}
    \cup {NumV(0 - 1000), NumV(0 - 5), StrV(<<"-", "1">>), StrV(Abc), StrV(Empty),
          StrV(TwelveText), NaNV, Undef, Null, BoolV(TRUE)}

MoneyOverrides ==
  {NoOverride, StrOverride(""), StrOverride("custom"),
   ObjOverride(NoMsg, "i", "bad"), ObjOverride(NoMsg, "", "")}

CallMoney ==
  /\ Idle
  /\ \E lbl \in Labels, cm \in MoneyOverrides, v \in MoneyInputs :
       Validate("money", lbl, cm, <<>>, v, money(lbl, cm))

NextMoney ==
  \/ Return
  \/ CallMoney

SpecMoney == Init /\ [][NextMoney]_vars

(***************************************************************************)
(* emailOrMobileNormalized: identifiers assembled from pieces              *)
(***************************************************************************)
\* an identifier is the concatenation of at most MaxChunks pieces
MaxChunks == 3

Chunks ==
  {<<" ", "+", "9", "1", " ">>,
   <<"9", "8", "7", "6", "5", "-">>,
   <<"4", "3", "2", "1", "0", " ">>,
   <<"9", "8", "7", "6", "5">>,
   <<"4", "3", "2", "1", "0">>,
   <<"+", "9", "1">>,
   <<" ">>,
   <<"-">>,
   <<"1", "2", "3", "4", "5">>,
   <<"A", "@", "B">>,
   <<".", "c", "o", "m">>,
   <<"a", "@">>,
   <<"b", ".">>,
   <<"5">>}

RECURSIVE ChunkStrings(_)
ChunkStrings(n) ==
  IF n = 0 THEN {<<>>}
  ELSE LET prev == ChunkStrings(n - 1)
       IN prev \cup {p \o c : p \in prev, c \in Chunks}

IdentInputs ==
  {StrV(s) : s \in ChunkStrings(MaxChunks)} \cup {Undef, Null, NumV(1000)}

IdentOverrides == {NoOverride, StrOverride("custom"), ObjOverride("r", "", "bad")}

CallEmailOrMobileNormalized ==
  /\ Idle
  /\ \E lbl \in Labels, cm \in IdentOverrides, v \in IdentInputs :
       Validate("emailOrMobileNormalized", lbl, cm, <<>>, v,
                emailOrMobileNormalized(lbl, cm))

NextIdent ==
  \/ Return
  \/ CallEmailOrMobileNormalized

SpecIdent == Init /\ [][NextIdent]_vars

(***************************************************************************)
(* The normalizing fragments: texts with blanks around them                *)
(***************************************************************************)
\* a text is validated with up to MaxPad blanks before it and after it
MaxPad == 2

Blanks(n) == [i \in 1..n |-> " "]

CoreTexts ==
  {Empty, Abc, SlugText, Mixed, <<"a", " ", "b">>, EmailText,
   <<"A", "@", "B", ".", "c", "o">>, MobileText, PrefixedMobile,
   <<"a", "b", "c", "d", "e", "1", "2", "3", "4", "f">>,
   <<"A", "B", "C", "D", "E", "1", "2", "3", "4", "F">>,
   <<"2", "2", "a", "b", "c", "d", "e", "1", "2", "3", "4", "f", "1", "Z", "5">>,
   <<"a", ".", "b", "c">>, <<"a", ".", ".", "b">>}

NormalizedInputs ==
  {StrV(Blanks(before) \o t \o Blanks(after)) :
     before \in 0..MaxPad, after \in 0..MaxPad, t \in CoreTexts}
    \cup {Undef, Null, NumV(1000)}

NormalizedOverrides ==
  {NoOverride, StrOverride(""), StrOverride("custom"),
   ObjOverride(NoMsg, NoMsg, "bad"), ObjOverride("", "", "")}

CallRequiredStringTrimmed ==
  /\ Idle
  /\ \E lbl \in Labels, cm \in NormalizedOverrides, v \in NormalizedInputs :
       Validate("requiredStringTrimmed", lbl, cm, <<>>, v, requiredStringTrimmed(lbl, cm))
CallEmailNormalized ==
  /\ Idle
  /\ \E lbl \in Labels, cm \in NormalizedOverrides, v \in NormalizedInputs :
       Validate("emailNormalized", lbl, cm, <<>>, v, emailNormalized(lbl, cm))
CallRequiredSlugNormalized ==
  /\ Idle
  /\ \E lbl \in Labels, cm \in NormalizedOverrides, v \in NormalizedInputs :
       Validate("requiredSlugNormalized", lbl, cm, <<>>, v, requiredSlugNormalized(lbl, cm))
CallOptionalSlugNormalized ==
  /\ Idle
  /\ \E lbl \in Labels, cm \in NormalizedOverrides, v \in NormalizedInputs :
       Validate("optionalSlugNormalized", lbl, cm, <<>>, v, optionalSlugNormalized(lbl, cm))
CallPan ==
  /\ Idle
  /\ \E lbl \in Labels, cm \in NormalizedOverrides, v \in NormalizedInputs :
       Validate("pan", lbl, cm, <<>>, v, pan(lbl, cm))
CallGstin ==
  /\ Idle
  /\ \E lbl \in Labels, cm \in NormalizedOverrides, v \in NormalizedInputs :
       Validate("gstin", lbl, cm, <<>>, v, gstin(lbl, cm))
CallDomain ==
  /\ Idle
  /\ \E lbl \in Labels, cm \in NormalizedOverrides, v \in NormalizedInputs :
       Validate("domain", lbl, cm, <<>>, v, domain(lbl, cm))
CallInMobileNormalized ==
  /\ Idle
  /\ \E lbl \in Labels, cm \in NormalizedOverrides, v \in NormalizedInputs :
       Validate("inMobile", lbl, cm, <<>>, v, inMobile(lbl, cm))

NextNormalized ==
  \/ Return
  \/ CallRequiredStringTrimmed
  \/ CallEmailNormalized
  \/ CallRequiredSlugNormalized
  \/ CallOptionalSlugNormalized
  \/ CallPan
  \/ CallGstin
  \/ CallDomain
  \/ CallInMobileNormalized

SpecNormalized == Init /\ [][NextNormalized]_vars

(***************************************************************************)
(* uniqueArrayBy: arrays of objects, keyed by "id"                         *)
(***************************************************************************)
\* arrays of at most MaxItems elements are validated
MaxItems == 3

Items ==
  {ObjV([id |-> NumV(1000)]), ObjV([id |-> NumV(2000)]),
   ObjV([id |-> StrV(<<"a">>)]), ObjV([id |-> StrV(<<" ", "a">>)]),
   ObjV([name |-> StrV(<<"a">>)]), NumV(1000)}

RECURSIVE ItemLists(_)
ItemLists(n) ==
  IF n = 0 THEN {<<>>}
  ELSE LET prev == ItemLists(n - 1)
       IN prev \cup {Append(p, e) : p \in prev, e \in Items}

ArrayInputs == {ArrV(l) : l \in ItemLists(MaxItems)} \cup {Undef, ObjV([id |-> NumV(1000)])}

\* the element schemas the caller passes: z.object({id: z.number()}),
\* z.object({id: requiredStringTrimmed("ID")}) and z.any()
ElementSchemaNames == {"numberId", "trimmedId", "any"}

ElementSchema(name) ==
  CASE name = "numberId" -> ZObject(<<[key |-> "id", schema |-> ZNumber(NoMsg, NoMsg)]>>)
    [] name = "trimmedId" ->
         ZObject(<<[key |-> "id", schema |-> requiredStringTrimmed("ID", NoOverride)]>>)
    [] name = "any" -> ZAny

CallUniqueArrayBy ==
  /\ Idle
  /\ \E name \in ElementSchemaNames, lbl \in Labels, v \in ArrayInputs :
       Validate("uniqueArrayBy", lbl, NoOverride, <<name, "id">>, v,
                uniqueArrayBy(ElementSchema(name), "id", lbl))

NextUnique ==
  \/ Return
  \/ CallUniqueArrayBy

SpecUnique == Init /\ [][NextUnique]_vars

(***************************************************************************)
(* dateRange and dateAfter: dates and times around the turn of a year      *)
(***************************************************************************)
Midnight == <<"T", "0", "0", ":", "0", "0", ":", "0", "0", "Z">>
Noon == <<"T", "1", "2", ":", "0", "0", ":", "0", "0", "Z">>

Days ==
  {<<"2", "0", "2", "3", "-", "1", "2", "-", "3", "1">>,
   DateText,
   <<"2", "0", "2", "4", "-", "0", "1", "-", "0", "2">>,
   <<"2", "0", "2", "4", "-", "0", "1", "-", "1", "0">>,
   <<"2", "0", "2", "4", "-", "0", "2", "-", "2", "9">>}

DateTexts ==
  Days \cup {d \o Midnight : d \in Days} \cup {d \o Noon : d \in Days}
    \cup {BadDate, Abc, Empty}

RangeInputs ==
  {ObjV([start |-> StrV(a), end |-> StrV(b)]) : a, b \in DateTexts}
    \cup {ObjV([start |-> StrV(DateText)]), ObjV([start |-> NumV(1000), end |-> StrV(DateText)]),
          Undef, StrV(DateText)}

CallDateRange ==
  /\ Idle
  /\ \E v \in RangeInputs :
       Validate("dateRange", NoMsg, NoOverride, <<>>, v, dateRange)

CallDateAfter ==
  /\ Idle
  /\ \E minISO \in DateTexts \ {Empty}, lbl \in Labels,
        v \in {StrV(t) : t \in DateTexts} \cup {Undef, NumV(1000)} :
       Validate("dateAfter", lbl, NoOverride, <<minISO>>, v, dateAfter(minISO, lbl))

NextDates ==
  \/ Return
  \/ CallDateRange
  \/ CallDateAfter

SpecDates == Init /\ [][NextDates]_vars

(***************************************************************************)
(* Pagination: limits up to a ceiling that the caller chooses              *)
(***************************************************************************)
\* buildPagination is called with maxLimit from 1 to MaxCeiling
MaxCeiling == 12

PageValues ==
  {NumV(0 - 1000), NumV(0), NumV(1000), NumV(1500), NumV(5000), NumV(10000),
   NumV(11000), NumV(12000), NumV(13000), StrV(<<"5">>), StrV(Abc), Null, BoolV(TRUE)}

PageInputs ==
  {ObjV([k \in keys |-> IF k = "page" THEN page ELSE limit]) :
     keys \in SUBSET {"page", "limit"}, page \in {NumV(1000), NumV(0), StrV(<<"5">>)},
     limit \in PageValues}
    \cup {Undef}

CallBuildPagination ==
  /\ Idle
  /\ \E maxLimit \in 1..MaxCeiling, v \in PageInputs :
       Validate("buildPagination", NoMsg, NoOverride, <<IntText(maxLimit)>>, v,
                buildPagination(maxLimit))

\* z.object(paginationFields)
CallPaginationFields ==
  /\ Idle
  /\ \E v \in PageInputs :
       Validate("paginationFields", NoMsg, NoOverride, <<>>, v, ZObject(paginationFields))

NextPagination ==
  \/ Return
  \/ CallBuildPagination
  \/ CallPaginationFields

SpecPagination == Init /\ [][NextPagination]_vars

(***************************************************************************)
(* Properties                                                              *)
(***************************************************************************)
\* the failure class of an issue: Required for an absent value, InvalidType
\* for a value of another type, Validation for a failed check
IssueClass(i) ==
  IF i.code = "invalid_type"
  THEN (IF i.received = "undefined" THEN "required" ELSE "invalid")
  ELSE "validation"

IssueIndexes == 1..Len(result.issues)

Failed == ~result.success /\ Len(result.issues) >= 1

AllMessagesAre(text) == \A i \in IssueIndexes : result.issues[i].message = text

\* C1: requiredString(L, s) with a non-empty plain-string override s fails
\* for an absent value, for a value that is not a string and for the empty
\* string, each time with every message equal to s.
C1_StringOverrideCollapses ==
  (/\ factory = "requiredString"
   /\ override.kind = "string" /\ override.val # ""
   /\ (input.kind # "string" \/ input = StrV(<<>>)))
    => Failed /\ AllMessagesAre(override.val)

C1_Witness ==
  /\ factory = "requiredString"
  /\ override = StrOverride("custom")
  /\ input = StrV(<<>>)
  /\ Failed
  /\ result.issues[1].message = "custom"

\* C2: with a non-empty plain-string override s, every failure of every
\* fragment that accepts an override has message s.
C2_StringOverrideEverywhere ==
  (/\ ~Idle
   /\ override.kind = "string" /\ override.val # ""
   /\ ~result.success)
    => AllMessagesAre(override.val)

\* the default message of a failure class, from the label and the catalog
DefaultMessage(f, class, lbl) ==
  CASE class = "required" -> Tpl(lbl, FIELD_ERRORS.REQUIRED)
    [] class = "invalid" -> Tpl(lbl, FIELD_ERRORS.STRING)
    [] class = "validation" /\ f = "requiredString" -> Tpl(lbl, FIELD_ERRORS.REQUIRED)
    [] class = "validation" /\ f = "uuid" -> Tpl(lbl, FIELD_ERRORS.UUID)
    [] class = "validation" /\ f = "dateString" -> Tpl(lbl, FIELD_ERRORS.DATE)
    [] class = "validation" /\ f = "emailOrMobile" ->
         lbl \o " " \o FIELD_ERRORS.EMAIL \o " or " \o FIELD_ERRORS.MOBILE

StructuredFactories == {"requiredString", "uuid", "dateString", "emailOrMobile"}

IsSet(entry) == entry # NoMsg /\ entry # ""

RequiredFactories ==
  {"requiredString", "requiredNumber", "positiveNumber", "boolean", "uuid", "dateString"}

\* the value is of the fragment's type and passes its semantic checks
WellFormed(f, v) ==
  CASE f = "requiredString" -> v.kind = "string" /\ Len(v.val) >= 1
    [] f = "requiredNumber" -> v.kind = "number"
    [] f = "positiveNumber" -> v.kind = "number" /\ v.val > 0
    [] f = "boolean" -> v.kind = "boolean"
    [] f = "uuid" -> v.kind = "string" /\ UuidRegex(v.val)
    [] f = "dateString" -> v.kind = "string" /\ DateParses(v.val)

\* C4: a required primitive fragment with label L and no override reports
\* for an absent value exactly one failure, of class Required, with message
\* "L is required", and accepts every well-formed value.
C4_RequiredMessage ==
  (/\ factory \in RequiredFactories
   /\ override = NoOverride
   /\ label # NoMsg)
    => /\ input = Undef =>
            /\ ~result.success
            /\ Len(result.issues) = 1
            /\ IssueClass(result.issues[1]) = "required"
            /\ result.issues[1].message = label \o " is required"
       /\ WellFormed(factory, input) => result.success

StringFactories ==
  {"requiredString", "optionalString", "uuid", "optionalUUID", "dateString",
   "optionalDate", "fileUrl", "imageUrl", "slug", "emailOrMobile", "pinCode",
   "inMobile", "httpsUrl"}
NumberFactories == {"requiredNumber", "positiveNumber", "optionalNumber"}
BooleanFactories == {"boolean", "optionalBoolean"}

BaseType(f) ==
  IF f \in StringFactories THEN "string"
  ELSE IF f \in NumberFactories THEN "number" ELSE "boolean"

\* C5: a fragment with label L and no override reports for a present value
\* of the wrong primitive type exactly one failure, with message "L must be
\* a <base type>".
C5_WrongTypeMessage ==
  (/\ factory \in StringFactories \cup NumberFactories \cup BooleanFactories
   /\ override = NoOverride
   /\ label # NoMsg
   /\ input.kind \in {"string", "number", "boolean"}
   /\ input.kind # BaseType(factory))
    => /\ ~result.success
       /\ Len(result.issues) = 1
       /\ result.issues[1].message =
            label \o " " \o (CASE BaseType(factory) = "string" -> FIELD_ERRORS.STRING
                               [] BaseType(factory) = "number" -> FIELD_ERRORS.NUMBER
                               [] BaseType(factory) = "boolean" -> FIELD_ERRORS.BOOLEAN)

OptionalFactories ==
  {"optionalString", "optionalNumber", "optionalBoolean", "optionalUUID",
   "optionalDate", "slug", "fileUrl", "imageUrl"}

\* C6: an optional fragment accepts an absent value with an absent output,
\* whatever the label and the override, and never reports a Required
\* failure: it fails only for present values.
C6_OptionalNeverRequired ==
  factory \in OptionalFactories
    => /\ input = Undef => result.success /\ result.data = Undef
       /\ ~result.success => input # Undef
       /\ \A i \in IssueIndexes : IssueClass(result.issues[i]) # "required"

C6_Witness ==
  /\ factory = "optionalUUID"
  /\ override = StrOverride("custom")
  /\ input = Undef
  /\ result.success
  /\ result.data = Undef

\* the options in the order given, separated by a comma and a space
RECURSIVE OptionList(_, _)
OptionList(opts, n) ==
  IF n = 0 THEN ""
  ELSE IF n = 1 THEN Text(opts[1])
  ELSE OptionList(opts, n - 1) \o ", " \o Text(opts[n])

DecimalRound2(t) == ((t + 5) \div 10) * 10

\* the number an input of money is coerced to
Coerced(v) == IF v.kind = "string" THEN StringToNumber(v.val) ELSE v

\* C8: money() coerces a number or numeric string to a number; a value that
\* is not finite fails with "Amount must be a number", a negative one with
\* "Amount must be >= 0", and any other succeeds with the input rounded to
\* two decimal places, halves away from zero.
C8_MoneyRounds ==
  (/\ factory = "money"
   /\ override = NoOverride
   /\ label = NoMsg
   /\ input.kind \in {"string", "number"})
    => LET n == Coerced(input)
       IN /\ n.kind = "nan" =>
               ~result.success /\ result.issues[1].message = "Amount must be a number"
          /\ (n.kind = "number" /\ n.val < 0) =>
               ~result.success /\ AllMessagesAre("Amount must be >= 0")
          /\ (n.kind = "number" /\ n.val >= 0) =>
               result.success /\ result.data = NumV(DecimalRound2(n.val))

\* the identifier without blanks and hyphens
RECURSIVE Compact(_)
Compact(s) ==
  IF s = <<>> THEN <<>>
  ELSE IF s[Len(s)] \in {" ", "-"} THEN Compact(SubSeq(s, 1, Len(s) - 1))
  ELSE Append(Compact(SubSeq(s, 1, Len(s) - 1)), s[Len(s)])

\* n of C9: trimmed, blanks and hyphens removed, then a leading "+91" removed
Normal(s) ==
  LET c == Compact(s)
  IN IF Len(c) >= 3 /\ c[1] = "+" /\ c[2] = "9" /\ c[3] = "1"
     THEN SubSeq(c, 4, Len(c)) ELSE c

\* local@domain.tld: one "@", a non-empty local part, and after the "@" a
\* "." with text on both sides
EmailShape(s) ==
  /\ Cardinality({i \in 1..Len(s) : s[i] = "@"}) = 1
  /\ " " \notin {s[i] : i \in 1..Len(s)}
  /\ LET at == CHOOSE i \in 1..Len(s) : s[i] = "@"
     IN at > 1 /\ \E j \in (at + 2)..(Len(s) - 1) : s[j] = "."

\* ten digits, the first of them 6 to 9
IndianMobile(s) ==
  /\ Len(s) = 10
  /\ \A i \in 1..10 : s[i] \in DigitChars
  /\ DigitVal(s[1]) >= 6

\* C9: emailOrMobileNormalized() accepts a string exactly when n, its
\* normal form, is an email or a ten-digit mobile number starting 6-9; the
\* output is {type: "email", value: lowercase(n)} or {type: "mobile",
\* value: n}.
C9_IdentifierNormalized ==
  (factory = "emailOrMobileNormalized" /\ input.kind = "string")
    => LET n == Normal(input.val)
       IN /\ result.success <=> (EmailShape(n) \/ IndianMobile(n))
          /\ (result.success /\ EmailShape(n)) =>
               result.data = [kind |-> "object", type |-> "email", value |-> ToLowerCase(n)]
          /\ (result.success /\ IndianMobile(n)) =>
               result.data = [kind |-> "object", type |-> "mobile", value |-> n]
          /\ input.val = <<"A", "@", "B", ".", "c", "o", "m">> =>
               result.data = [kind |-> "object", type |-> "email",
                              value |-> <<"a", "@", "b", ".", "c", "o", "m">>]
          /\ input.val = <<"1", "2", "3", "4", "5">> => ~result.success

C9_Witness ==
  /\ factory = "emailOrMobileNormalized"
  /\ input = StrV(<<" ", "+", "9", "1", " ", "9", "8", "7", "6", "5", "-",
                    "4", "3", "2", "1", "0", " ">>)
  /\ result.success
  /\ result.data = [kind |-> "object", type |-> "mobile",
                    value |-> <<"9", "8", "7", "6", "5", "4", "3", "2", "1", "0">>]

\* C10: optionalNumberCoerce(L) treats "", null and undefined as absent and
\* succeeds with an absent output; "12" succeeds with the number 12.
C10_EmptyIsAbsent ==
  factory = "optionalNumberCoerce"
    => /\ input \in {StrV(<<>>), Null, Undef} => result.success /\ result.data = Undef
       /\ input = StrV(TwelveText) => result.success /\ result.data = NumV(12000)

\* the representations of true and of false that booleanCoerce recognizes
RepresentsTrue(v) ==
  \/ v = BoolV(TRUE)
  \/ (v.kind = "string" /\ v.val \in {<<"t", "r", "u", "e">>, <<"1">>})
  \/ (v.kind = "number" /\ v.val = 1000)

RepresentsFalse(v) ==
  \/ v = BoolV(FALSE)
  \/ (v.kind = "string" /\ v.val \in {<<"f", "a", "l", "s", "e">>, <<"0">>})
  \/ (v.kind = "number" /\ v.val = 0)

\* C11: booleanCoerce(L) with no override accepts the recognized
\* representations, with output true or false, and rejects every other
\* present value with the message "L must be a boolean" of the boolean
\* fragment; optionalNumberCoerce(L) rejects a string that is no number with
\* the message "L must be a number" of the number fragment.
C11_UnrecognizedPassedOn ==
  /\ (factory = "booleanCoerce" /\ override = NoOverride /\ label # NoMsg)
       => /\ RepresentsTrue(input) => result.success /\ result.data = BoolV(TRUE)
          /\ RepresentsFalse(input) => result.success /\ result.data = BoolV(FALSE)
          /\ (~RepresentsTrue(input) /\ ~RepresentsFalse(input) /\ input # Undef)
               => Failed /\ AllMessagesAre(Tpl(label, FIELD_ERRORS.BOOLEAN))
  /\ (/\ factory = "optionalNumberCoerce" /\ override = NoOverride /\ label # NoMsg
      /\ input.kind = "string" /\ StringToNumber(input.val) = NaNV)
       => Failed /\ AllMessagesAre(Tpl(label, FIELD_ERRORS.NUMBER))

\* C12: every failure that a fragment reports carries a message that is
\* neither empty nor undefined, whatever the label and the override (absent,
\* structured with entries unset or empty, or the empty string).
C12_MessageNeverEmpty ==
  \A i \in IssueIndexes : result.issues[i].message \notin {"", NoMsg}

NormalizingFactories ==
  {"requiredStringTrimmed", "emailNormalized", "requiredSlugNormalized",
   "optionalSlugNormalized", "pan", "gstin", "domain", "inMobile"}

\* the fragment that the call in progress validates with
Fragment(f, lbl, msg) ==
  CASE f = "requiredStringTrimmed" -> requiredStringTrimmed(lbl, msg)
    [] f = "emailNormalized" -> emailNormalized(lbl, msg)
    [] f = "requiredSlugNormalized" -> requiredSlugNormalized(lbl, msg)
    [] f = "optionalSlugNormalized" -> optionalSlugNormalized(lbl, msg)
    [] f = "pan" -> pan(lbl, msg)
    [] f = "gstin" -> gstin(lbl, msg)
    [] f = "domain" -> domain(lbl, msg)
    [] f = "inMobile" -> inMobile(lbl, msg)

\* C15: whenever a normalizing fragment accepts an input with output w, the
\* same fragment accepts w and yields w again.
C15_NormalizedStaysValid ==
  (factory \in NormalizingFactories /\ result.success)
    => LET again == SafeParse(Fragment(factory, label, override), result.data)
       IN again.success /\ again.data = result.data

\* the elements of the input each satisfy the element schema
ElementsSatisfy(schema) ==
  /\ input.kind = "array"
  /\ \A i \in 1..Len(input.val) : SafeParse(schema, input.val[i]).success

\* the values are pairwise distinct
PairwiseDistinct(values) ==
  \A i, j \in 1..Len(values) : i # j => values[i] # values[j]

\* C13 as stated: an array whose elements each satisfy schema is accepted
\* exactly when the values of field key of its elements are pairwise
\* distinct, and is rejected with "L must have unique id" otherwise.
C13_UniqueKeys ==
  (factory = "uniqueArrayBy" /\ ElementsSatisfy(ElementSchema(options[1])))
    => /\ result.success
            <=> PairwiseDistinct([i \in 1..Len(input.val) |-> Get(input.val[i], options[2])])
       /\ ~result.success
            => AllMessagesAre((IF label = NoMsg THEN "Array" ELSE label)
                                \o " must have unique " \o options[2])

\* C13 amended: the values compared are those of field key in the elements
\* as schema outputs them (after its transformations and the removal of
\* properties it does not declare); elements without the field share the
\* value undefined.
C13_UniqueParsedKeys ==
  (factory = "uniqueArrayBy" /\ ElementsSatisfy(ElementSchema(options[1])))
    => /\ result.success
            <=> PairwiseDistinct(
                  [i \in 1..Len(input.val) |->
                     Get(SafeParse(ElementSchema(options[1]), input.val[i]).data,
                         options[2])])
       /\ ~result.success
            => AllMessagesAre((IF label = NoMsg THEN "Array" ELSE label)
                                \o " must have unique " \o options[2])

C13_Witness ==
  /\ factory = "uniqueArrayBy"
  /\ label = NoMsg
  /\ options = <<"numberId", "id">>
  /\ input = ArrV(<<ObjV([id |-> NumV(1000)]), ObjV([id |-> NumV(1000)])>>)
  /\ Failed
  /\ result.issues[1].message = "Array must have unique id"

\* the calendar fields of a date text: year, month, day, hour, minute, second
CalendarFields(s) ==
  <<Num2(s, 1) * 100 + Num2(s, 3), Num2(s, 6), Num2(s, 9)>>
    \o (IF Len(s) = 20 THEN <<Num2(s, 12), Num2(s, 15), Num2(s, 18)>> ELSE <<0, 0, 0>>)

\* a is later than b: at the first field in which they differ, a is greater
LaterFields(a, b) ==
  \E i \in 1..6 : a[i] > b[i] /\ \A k \in 1..(i - 1) : a[k] = b[k]

Later(s, t) == LaterFields(CalendarFields(s), CalendarFields(t))

\* C14: dateRange accepts {start, end}, both texts that parse as dates,
\* exactly when start is not later than end as a date, and otherwise fails
\* with "Start date must be before or equal to end date"; dateAfter(min)
\* accepts a text that parses as a date exactly when it is later than min.
C14_DatesCompared ==
  /\ (/\ factory = "dateRange"
      /\ input.kind = "object" /\ DOMAIN input.fields = {"start", "end"}
      /\ input.fields.start.kind = "string" /\ DateParses(input.fields.start.val)
      /\ input.fields.end.kind = "string" /\ DateParses(input.fields.end.val))
       => /\ result.success <=> ~Later(input.fields.start.val, input.fields.end.val)
          /\ result.success => result.data = input
          /\ ~result.success
               => Failed /\ AllMessagesAre("Start date must be before or equal to end date")
  /\ (/\ factory = "dateAfter"
      /\ input.kind = "string" /\ DateParses(input.val) /\ DateParses(options[1]))
       => (result.success <=> Later(input.val, options[1]))

C14_Witness ==
  /\ factory = "dateRange"
  /\ input = ObjV([start |-> StrV(<<"2", "0", "2", "4", "-", "0", "1", "-", "0", "2">>),
                   end |-> StrV(DateText)])
  /\ Failed
  /\ result.issues[1].message = "Start date must be before or equal to end date"

\* an input without page and without limit
NoPageNoLimit == input.kind = "object" /\ DOMAIN input.fields = {}

\* a whole number
Whole(v) == v.kind = "number" /\ v.val % 1000 = 0

\* C16: buildPagination(maxLimit), maxLimit >= 1, accepts an input without
\* page and limit with page = 1 and limit = 10, the defaults of
\* paginationFields, and every output it accepts has a whole page >= 1 and
\* a whole limit from 1 to maxLimit.
C16_PaginationDefaults ==
  /\ factory = "buildPagination"
       => /\ NoPageNoLimit
               => /\ result.success
                  /\ result.data = ObjV([page |-> NumV(1000), limit |-> NumV(10000)])
          /\ result.success
               => /\ Whole(result.data.fields.page)
                  /\ result.data.fields.page.val >= 1000
                  /\ Whole(result.data.fields.limit)
                  /\ result.data.fields.limit.val >= 1000
                  /\ result.data.fields.limit.val <= DigitsValue(options[1]) * 1000
  /\ (factory = "paginationFields" /\ NoPageNoLimit)
       => /\ result.success
          /\ result.data = ObjV([page |-> NumV(1000), limit |-> NumV(10000)])

====
